---- MODULE Spec2Model ----
(***************************************************************************)
(* Model of brainbraille_helpers/metrics.py: the weighted edit-distance    *)
(* alignment min_edit_dist (style presets, forward DP pass with tie-break, *)
(* backward pass into the confusion matrix) and the rate metrics tok_acc   *)
(* and tok_corr that call it.  One call is one behaviour: Init binds the   *)
(* arguments, the actions are the successive blocks of the function body.  *)
(***************************************************************************)
EXTENDS Integers, Sequences, FiniteSets, TLC

\* ---------------------------------------------------------------- bounds
\* Longest reference / predicted sequence that is enumerated.
MaxLen == 2

\* Tokens are compared with == and ordered by sorted(); integers stand for
\* the characters.
Tokens == {1, 2}

\* ------------------------------------------------- constants of the code
\* option codes stored in w[..][..][0]  (metrics.py:98-101)
DEL == 0
SUB == 1
INS == 2
\* the option of the sentinel cell (0,0)  (metrics.py:110)
NoAction == 0 - 1

HtkWeights == <<7, 10, 7>>
HtkTieBreak == <<1, 0, 2>>
NistWeights == <<3, 4, 3>>
NistTieBreak == <<0, 1, 2>>

\* ------------------------------------------------------------ the inputs
SeqsUpTo(n) == UNION {[1..k -> Tokens] : k \in 0..n}

TokenSeqs == SeqsUpTo(MaxLen)

\* (delete_weight, substitute_weight, insert_weight) triples that are passed
WeightChoices ==
    { <<1, 2, 1>>, <<1, 1, 1>>, <<1, 3, 1>>, <<2, 1, 1>>, <<1, 1, 2>>,
      <<2, 3, 1>>, <<0, 1, 1>>, <<1, 0, 1>>, <<1, 1, 0>> }

Perms == { <<0, 1, 2>>, <<0, 2, 1>>, <<1, 0, 2>>, <<1, 2, 0>>,
           <<2, 0, 1>>, <<2, 1, 0>> }

\* tie_break tuples that are no permutation of (0, 1, 2)
BadTieBreaks == { <<1, 1, 1>>, <<0, 1>>, <<0, 1, 3>> }

\* A style argument: a str (its characters) or not a str (None).
NoStyle == [isStr |-> FALSE, text |-> <<>>]
StrStyle(t) == [isStr |-> TRUE, text |-> t]

NamedTexts == { <<"h", "t", "k">>, <<"H", "T", "K">>, <<"H", "t", "k">>,
                <<"n", "i", "s", "t">>, <<"N", "I", "S", "T">>,
                <<"n", "i", "S", "t">> }
UnknownTexts == { <<"s", "c", "l", "i", "t", "e">>, <<>>, <<"h", "t">> }

\* str.lower() on the characters that occur
LowerChar(ch) ==
    CASE ch = "H" -> "h" [] ch = "T" -> "t" [] ch = "K" -> "k"
      [] ch = "N" -> "n" [] ch = "I" -> "i" [] ch = "S" -> "s"
      [] OTHER -> ch

Lower(t) == [k \in 1..Len(t) |-> LowerChar(t[k])]

\* One call: the function called and its bound arguments.
Call(f, l, p, wts, tb, st) ==
    [fn |-> f, label |-> l, pred |-> p, weights |-> wts, tie_break |-> tb,
     style |-> st]

\* min_edit_dist with style=None, so that weights and tie_break apply
PlainCalls ==
    { Call("min_edit_dist", l, p, wts, tb, NoStyle) :
        l \in TokenSeqs, p \in TokenSeqs, wts \in WeightChoices, tb \in Perms }

\* min_edit_dist with a str style, named or not
StyleCalls ==
    { Call("min_edit_dist", l, p, wts, tb, StrStyle(t)) :
        l \in TokenSeqs, p \in TokenSeqs,
        wts \in { <<1, 2, 1>>, <<2, 1, 1>> },
        tb \in { <<0, 1, 2>>, <<2, 1, 0>> },
        t \in NamedTexts \cup UnknownTexts }

\* min_edit_dist with style=None and a tie_break that is no permutation
BadTieBreakCalls ==
    { Call("min_edit_dist", l, p, wts, tb, NoStyle) :
        l \in TokenSeqs, p \in TokenSeqs,
        wts \in { <<1, 2, 1>>, <<2, 1, 1>> }, tb \in BadTieBreaks }

\* tok_acc / tok_corr: min_edit_dist(label, pred) with the defaults of the
\* signature (7, 10, 7, (1, 0, 2), 'htk')
TokCalls ==
    { Call(f, l, p, HtkWeights, HtkTieBreak, StrStyle(<<"h", "t", "k">>)) :
        f \in {"tok_acc", "tok_corr"}, l \in TokenSeqs, p \in TokenSeqs }

Calls == PlainCalls \cup StyleCalls \cup BadTieBreakCalls \cup TokCalls

\* --------------------------------------- min_edit_dist, block by block
\* ResolveStyle comparing style itself instead of style.lower()
ResolveStyleNoLower(wts, tb, st) ==
    IF st.isStr
    THEN IF st.text = <<"h", "t", "k">>
         THEN [weights |-> HtkWeights, tie_break |-> HtkTieBreak]
         ELSE IF st.text = <<"n", "i", "s", "t">>
              THEN [weights |-> NistWeights, tie_break |-> NistTieBreak]
              ELSE [weights |-> wts, tie_break |-> tb]
    ELSE [weights |-> wts, tie_break |-> tb]

\* lines 84-91: the (weights, tie_break) in force after the style override
ResolveStyle(wts, tb, st) ==
    IF st.isStr
    THEN IF Lower(st.text) = <<"h", "t", "k">>
         THEN [weights |-> HtkWeights, tie_break |-> HtkTieBreak]
         ELSE IF Lower(st.text) = <<"n", "i", "s", "t">>
              THEN [weights |-> NistWeights, tie_break |-> NistTieBreak]
              ELSE [weights |-> wts, tie_break |-> tb]
    ELSE [weights |-> wts, tie_break |-> tb]

\* np.arange(0, n * step, step) divides by step to size the result and
\* raises ZeroDivisionError for step = 0 (lines 105, 106)
ArangeRaises(step) == step = 0

ZeroCell == [option |-> 0, dist |-> 0, H |-> 0, D |-> 0, S |-> 0, I |-> 0]

\* lines 103-113: the zeroed array with row 0 and column 0 initialised
InitialGrid(N, M, dw, iw) ==
    [rc \in (0..N) \X (0..M) |->
        LET r == rc[1]
            c == rc[2]
        IN  IF r = 0 /\ c = 0
            THEN [ZeroCell EXCEPT !.option = NoAction]
            ELSE IF r = 0
                 THEN [ZeroCell EXCEPT !.option = INS, !.dist = c * iw, !.I = c]
                 ELSE IF c = 0
                      THEN [ZeroCell EXCEPT !.option = DEL, !.dist = r * dw,
                                            !.D = r]
                      ELSE ZeroCell]

\* d_s_i_costs[a]
CostOf(d_s_i_costs, a) == d_s_i_costs[a + 1]

\* lines 127-133 index tie_break[0..2] and d_s_i_costs[tie_break[k]] on
\* every path through the if/elif: an IndexError for a tuple shorter than 3
\* or an entry above 2 (the tuples enumerated have no negative entry)
TieBreakRaises(tb) ==
    \E k \in 1..3 : IF k > Len(tb) THEN TRUE ELSE tb[k] \notin 0..2

\* ChooseAction with the two branches of the elif exchanged
ChooseActionSwapped(d_s_i_costs, tb) ==
    IF /\ CostOf(d_s_i_costs, tb[1]) <= CostOf(d_s_i_costs, tb[2])
       /\ CostOf(d_s_i_costs, tb[1]) <= CostOf(d_s_i_costs, tb[3])
    THEN tb[1]
    ELSE IF CostOf(d_s_i_costs, tb[3]) < CostOf(d_s_i_costs, tb[2])
         THEN tb[2]
         ELSE tb[3]

\* ChooseAction without the second comparison of line 128
ChooseActionOneTest(d_s_i_costs, tb) ==
    IF CostOf(d_s_i_costs, tb[1]) <= CostOf(d_s_i_costs, tb[2])
    THEN tb[1]
    ELSE IF CostOf(d_s_i_costs, tb[3]) < CostOf(d_s_i_costs, tb[2])
         THEN tb[3]
         ELSE tb[2]

\* ChooseAction with < for the <= of lines 127-128
ChooseActionStrict(d_s_i_costs, tb) ==
    IF /\ CostOf(d_s_i_costs, tb[1]) < CostOf(d_s_i_costs, tb[2])
       /\ CostOf(d_s_i_costs, tb[1]) < CostOf(d_s_i_costs, tb[3])
    THEN tb[1]
    ELSE IF CostOf(d_s_i_costs, tb[3]) < CostOf(d_s_i_costs, tb[2])
         THEN tb[3]
         ELSE tb[2]

\* lines 127-133: the action recorded for a cell
ChooseAction(d_s_i_costs, tb) ==
    IF /\ CostOf(d_s_i_costs, tb[1]) <= CostOf(d_s_i_costs, tb[2])
       /\ CostOf(d_s_i_costs, tb[1]) <= CostOf(d_s_i_costs, tb[3])
    THEN tb[1]
    ELSE IF CostOf(d_s_i_costs, tb[3]) < CostOf(d_s_i_costs, tb[2])
         THEN tb[3]
         ELSE tb[2]

\* line 118: the cost of the diagonal step
SubCost(lab, prd, sw, r, c) == IF prd[c] = lab[r] THEN 0 ELSE sw

\* lines 122-125
DSICosts(wg, lab, prd, wts, r, c) ==
    << wg[<<r - 1, c>>].dist + wts[1],
       wg[<<r - 1, c - 1>>].dist + SubCost(lab, prd, wts[2], r, c),
       wg[<<r, c - 1>>].dist + wts[3] >>

\* D_S_I_col_ind[action]  (line 114)
CountField(a) == CASE a = DEL -> "D" [] a = SUB -> "S" [] OTHER -> "I"

\* CellValue without the decrement of line 141
CellValueNoDecrement(wg, lab, prd, wts, tb, r, c) ==
    LET costs == DSICosts(wg, lab, prd, wts, r, c)
        action == ChooseAction(costs, tb)
        copied == IF action = DEL THEN wg[<<r - 1, c>>]
                  ELSE IF action = SUB THEN wg[<<r - 1, c - 1>>]
                  ELSE wg[<<r, c - 1>>]
        hit == IF action = SUB /\ SubCost(lab, prd, wts[2], r, c) = 0
               THEN [copied EXCEPT !.H = @ + 1]
               ELSE copied
    IN  [hit EXCEPT !.option = action,
                    !.dist = CostOf(costs, action),
                    ![CountField(action)] = @ + 1]

\* lines 135-146: the record written to w[r][c]
CellValue(wg, lab, prd, wts, tb, r, c) ==
    LET costs == DSICosts(wg, lab, prd, wts, r, c)
        action == ChooseAction(costs, tb)
        copied == IF action = DEL THEN wg[<<r - 1, c>>]
                  ELSE IF action = SUB THEN wg[<<r - 1, c - 1>>]
                  ELSE wg[<<r, c - 1>>]
        hit == IF action = SUB /\ SubCost(lab, prd, wts[2], r, c) = 0
               THEN [copied EXCEPT !.H = @ + 1, ![CountField(action)] = @ - 1]
               ELSE copied
    IN  [hit EXCEPT !.option = action,
                    !.dist = CostOf(costs, action),
                    ![CountField(action)] = @ + 1]

\* FillCell if w[r][c] were the copied cell itself and not a copy of it:
\* the increments of lines 140-146 reach the source cell too
FillCellAliased(wg, lab, prd, wts, tb, r, c) ==
    LET new == CellValue(wg, lab, prd, wts, tb, r, c)
        from == IF new.option = DEL THEN <<r - 1, c>>
                ELSE IF new.option = SUB THEN <<r - 1, c - 1>>
                ELSE <<r, c - 1>>
    IN  [wg EXCEPT ![<<r, c>>] = new, ![from] = new]

\* w after the assignment to w[r][c]
FillCell(wg, lab, prd, wts, tb, r, c) ==
    [wg EXCEPT ![<<r, c>>] = CellValue(wg, lab, prd, wts, tb, r, c)]

\* the cell the nested loops of lines 116-117 visit after (r, c)
HasNextCell(N, M, r, c) == N >= 1 /\ M >= 1 /\ ~(r = N /\ c = M)
NextCell(M, r, c) ==
    IF r = 0 THEN <<1, 1>> ELSE IF c < M THEN <<r, c + 1>> ELSE <<r + 1, 1>>

\* lines 116-146 from the cell after (r, c) to the end of the loops
RECURSIVE ForwardFrom(_, _, _, _, _, _, _)
ForwardFrom(wg, lab, prd, wts, tb, r, c) ==
    IF HasNextCell(Len(lab), Len(prd), r, c)
    THEN LET n == NextCell(Len(prd), r, c)
         IN  ForwardFrom(FillCell(wg, lab, prd, wts, tb, n[1], n[2]),
                         lab, prd, wts, tb, n[1], n[2])
    ELSE wg

\* line 148: sorted(np.unique(label + pred))
RECURSIVE SortedSeq(_)
SortedSeq(S) ==
    IF S = {} THEN <<>>
    ELSE LET m == CHOOSE x \in S : \A y \in S : x <= y
         IN  <<m>> \o SortedSeq(S \ {m})

Range(s) == {s[k] : k \in 1..Len(s)}
UniqueTokens(lab, prd) == SortedSeq(Range(lab \o prd))

\* line 149: unique_token_dict[tok]
TokenIndex(toks, tok) == (CHOOSE k \in 1..Len(toks) : toks[k] = tok) - 1

\* lines 151-153
ZeroMatrix(U) == [ij \in (0..U) \X (0..U) |-> 0]

\* lines 156-169: one iteration of the while loop
BackStep(wg, lab, prd, toks, bt) ==
    LET action == wg[<<bt.cur_row, bt.cur_col>>].option
        U == Len(toks)
    IN  IF action = SUB
        THEN LET i == TokenIndex(toks, lab[bt.cur_row])
                 j == TokenIndex(toks, prd[bt.cur_col])
             IN  [confusion_mat |-> [bt.confusion_mat EXCEPT ![<<i, j>>] = @ + 1],
                  cur_row |-> bt.cur_row - 1, cur_col |-> bt.cur_col - 1]
        ELSE IF action = DEL
        THEN LET i == TokenIndex(toks, lab[bt.cur_row])
             IN  [confusion_mat |-> [bt.confusion_mat EXCEPT ![<<i, U>>] = @ + 1],
                  cur_row |-> bt.cur_row - 1, cur_col |-> bt.cur_col]
        ELSE LET j == TokenIndex(toks, prd[bt.cur_col])
             IN  [confusion_mat |-> [bt.confusion_mat EXCEPT ![<<U, j>>] = @ + 1],
                  cur_row |-> bt.cur_row, cur_col |-> bt.cur_col - 1]

\* line 155: the loop condition
BackContinues(bt) == bt.cur_row > 0 /\ bt.cur_col > 0

\* lines 155-169: the while loop run to its end
RECURSIVE Backtrace(_, _, _, _, _)
Backtrace(wg, lab, prd, toks, bt) ==
    IF BackContinues(bt)
    THEN Backtrace(wg, lab, prd, toks, BackStep(wg, lab, prd, toks, bt))
    ELSE bt

\* line 173: the returned tuple
Returned(wg, r, c, cm, toks) ==
    [w |-> [dist |-> wg[<<r, c>>].dist, H |-> wg[<<r, c>>].H,
            D |-> wg[<<r, c>>].D, S |-> wg[<<r, c>>].S, I |-> wg[<<r, c>>].I],
     confusion_mat |-> cm, unique_tokens |-> toks]

\* line 154 reads the loop variables row and col: a loop over an empty range
\* leaves its variable unbound (written 0)
LoopVarsUnbound(r, c) == r = 0 \/ c = 0

\* lines 92-173 as a whole, for given weights and tie_break in force: the
\* exception raised ("" if none) and the value returned
MinEditDistBody(lab, prd, wts, tb) ==
    LET N == Len(lab)
        M == Len(prd)
        none == [error |-> "", ret |-> <<>>]
    IN  IF ArangeRaises(wts[3]) \/ ArangeRaises(wts[1])
        THEN [none EXCEPT !.error = "ZeroDivisionError"]
        ELSE IF HasNextCell(N, M, 0, 0) /\ TieBreakRaises(tb)
        THEN [none EXCEPT !.error = "IndexError"]
        ELSE IF LoopVarsUnbound(N, M)
        THEN [none EXCEPT !.error = "UnboundLocalError"]
        ELSE LET wg == ForwardFrom(InitialGrid(N, M, wts[1], wts[3]),
                                   lab, prd, wts, tb, 0, 0)
                 toks == UniqueTokens(lab, prd)
                 bt == Backtrace(wg, lab, prd, toks,
                                 [confusion_mat |-> ZeroMatrix(Len(toks)),
                                  cur_row |-> N, cur_col |-> M])
             IN  [none EXCEPT
                    !.ret = Returned(wg, N, M, bt.confusion_mat, toks)]

\* TokAccValue with the insert count added instead of subtracted
TokAccValuePlusInsert(n, res) ==
    [num |-> n - res.D - res.S + res.I, den |-> n]

\* lines 180, 187: the quotient as numerator and denominator
TokAccValue(n, res) == [num |-> n - res.D - res.S - res.I, den |-> n]
TokCorrValue(n, res) == [num |-> n - res.D - res.S, den |-> n]

\* ------------------------------------------------------------- the state
VARIABLES
    call,               \* the call as made: fn, label, pred, passed arguments
    delete_weight,      \* the locals of min_edit_dist
    substitute_weight,
    insert_weight,
    tie_break,
    w,                  \* the DP array, <<>> before line 103
    row, col,           \* the loop variables; 0 = the name is not bound
    unique_tokens,
    confusion_mat,
    cur_row, cur_col,
    pc,                 \* position in the call
    ret,                \* the value min_edit_dist returned
    value,              \* the value tok_acc / tok_corr returned
    error               \* the exception raised, "" if none

vars == << call, delete_weight, substitute_weight, insert_weight, tie_break,
           w, row, col, unique_tokens, confusion_mat, cur_row, cur_col, pc,
           ret, value, error >>

label == call.label
pred == call.pred
style == call.style
weights == <<delete_weight, substitute_weight, insert_weight>>
num_row == Len(label) + 1
num_col == Len(pred) + 1

Init ==
    /\ call \in Calls
    /\ delete_weight = call.weights[1]
    /\ substitute_weight = call.weights[2]
    /\ insert_weight = call.weights[3]
    /\ tie_break = call.tie_break
    /\ w = <<>>
    /\ row = 0
    /\ col = 0
    /\ unique_tokens = <<>>
    /\ confusion_mat = <<>>
    /\ cur_row = 0
    /\ cur_col = 0
    /\ pc = "entry"
    /\ ret = <<>>
    /\ value = <<>>
    /\ error = ""

Raise(e) ==
    /\ pc' = "raised"
    /\ error' = e

\* lines 84-91
ApplyStyle ==
    /\ pc = "entry"
    /\ LET eff == ResolveStyle(call.weights, call.tie_break, style)
       IN  /\ delete_weight' = eff.weights[1]
           /\ substitute_weight' = eff.weights[2]
           /\ insert_weight' = eff.weights[3]
           /\ tie_break' = eff.tie_break
    /\ pc' = "alloc"
    /\ UNCHANGED << call, w, row, col, unique_tokens, confusion_mat, cur_row,
                    cur_col, ret, value, error >>

\* lines 92-114
Allocate ==
    /\ pc = "alloc"
    /\ ~ArangeRaises(insert_weight)
    /\ ~ArangeRaises(delete_weight)
    /\ w' = InitialGrid(num_row - 1, num_col - 1, delete_weight, insert_weight)
    /\ pc' = "forward"
    /\ UNCHANGED << call, delete_weight, substitute_weight, insert_weight,
                    tie_break, row, col, unique_tokens, confusion_mat,
                    cur_row, cur_col, ret, value, error >>

\* lines 105-106 with a zero step
AllocateRaises ==
    /\ pc = "alloc"
    /\ ArangeRaises(insert_weight) \/ ArangeRaises(delete_weight)
    /\ Raise("ZeroDivisionError")
    /\ UNCHANGED << call, delete_weight, substitute_weight, insert_weight,
                    tie_break, w, row, col, unique_tokens, confusion_mat,
                    cur_row, cur_col, ret, value >>

\* lines 116-146: one iteration of the inner loop
ForwardCell ==
    /\ pc = "forward"
    /\ HasNextCell(Len(label), Len(pred), row, col)
    /\ ~TieBreakRaises(tie_break)
    /\ LET n == NextCell(Len(pred), row, col)
       IN  /\ row' = n[1]
           /\ col' = n[2]
           /\ w' = FillCell(w, label, pred, weights, tie_break, n[1], n[2])
    /\ UNCHANGED << call, delete_weight, substitute_weight, insert_weight,
                    tie_break, unique_tokens, confusion_mat, cur_row, cur_col,
                    pc, ret, value, error >>

\* lines 127-133 with a tie_break that cannot be indexed
ForwardCellRaises ==
    /\ pc = "forward"
    /\ HasNextCell(Len(label), Len(pred), row, col)
    /\ TieBreakRaises(tie_break)
    /\ LET n == NextCell(Len(pred), row, col)
       IN  /\ row' = n[1]
           /\ col' = n[2]
    /\ Raise("IndexError")
    /\ UNCHANGED << call, delete_weight, substitute_weight, insert_weight,
                    tie_break, w, unique_tokens, confusion_mat, cur_row,
                    cur_col, ret, value >>

\* the loops end; lines 148-153
ForwardExit ==
    /\ pc = "forward"
    /\ ~HasNextCell(Len(label), Len(pred), row, col)
    /\ row' = IF Len(label) >= 1 THEN Len(label) ELSE row
    /\ unique_tokens' = UniqueTokens(label, pred)
    /\ confusion_mat' = ZeroMatrix(Len(UniqueTokens(label, pred)))
    /\ pc' = "trace"
    /\ UNCHANGED << call, delete_weight, substitute_weight, insert_weight,
                    tie_break, w, col, cur_row, cur_col, ret, value, error >>

\* line 154
StartBacktrace ==
    /\ pc = "trace"
    /\ row # 0
    /\ col # 0
    /\ cur_row' = row
    /\ cur_col' = col
    /\ pc' = "backward"
    /\ UNCHANGED << call, delete_weight, substitute_weight, insert_weight,
                    tie_break, w, row, col, unique_tokens, confusion_mat, ret,
                    value, error >>

\* line 154 when a loop never ran
StartBacktraceRaises ==
    /\ pc = "trace"
    /\ LoopVarsUnbound(row, col)
    /\ Raise("UnboundLocalError")
    /\ UNCHANGED << call, delete_weight, substitute_weight, insert_weight,
                    tie_break, w, row, col, unique_tokens, confusion_mat,
                    cur_row, cur_col, ret, value >>

\* lines 155-169: one iteration of the while loop
BackwardStep ==
    /\ pc = "backward"
    /\ BackContinues([cur_row |-> cur_row, cur_col |-> cur_col])
    /\ LET bt == BackStep(w, label, pred, unique_tokens,
                          [confusion_mat |-> confusion_mat,
                           cur_row |-> cur_row, cur_col |-> cur_col])
       IN  /\ confusion_mat' = bt.confusion_mat
           /\ cur_row' = bt.cur_row
           /\ cur_col' = bt.cur_col
    /\ UNCHANGED << call, delete_weight, substitute_weight, insert_weight,
                    tie_break, w, row, col, unique_tokens, pc, ret, value,
                    error >>

\* line 173
Return ==
    /\ pc = "backward"
    /\ ~BackContinues([cur_row |-> cur_row, cur_col |-> cur_col])
    /\ ret' = Returned(w, row, col, confusion_mat, unique_tokens)
    /\ pc' = IF call.fn = "min_edit_dist" THEN "returned" ELSE "tok"
    /\ UNCHANGED << call, delete_weight, substitute_weight, insert_weight,
                    tie_break, w, row, col, unique_tokens, confusion_mat,
                    cur_row, cur_col, value, error >>

\* tok_acc, lines 178-180
TokAcc ==
    /\ pc = "tok"
    /\ call.fn = "tok_acc"
    /\ value' = TokAccValue(Len(label), ret.w)
    /\ pc' = "returned"
    /\ UNCHANGED << call, delete_weight, substitute_weight, insert_weight,
                    tie_break, w, row, col, unique_tokens, confusion_mat,
                    cur_row, cur_col, ret, error >>

\* tok_corr, lines 185-187
TokCorr ==
    /\ pc = "tok"
    /\ call.fn = "tok_corr"
    /\ value' = TokCorrValue(Len(label), ret.w)
    /\ pc' = "returned"
    /\ UNCHANGED << call, delete_weight, substitute_weight, insert_weight,
                    tie_break, w, row, col, unique_tokens, confusion_mat,
                    cur_row, cur_col, ret, error >>

Next ==
    \/ ApplyStyle
    \/ Allocate
    \/ AllocateRaises
    \/ ForwardCell
    \/ ForwardCellRaises
    \/ ForwardExit
    \/ StartBacktrace
    \/ StartBacktraceRaises
    \/ BackwardStep
    \/ Return
    \/ TokAcc
    \/ TokCorr

Spec == Init /\ [][Next]_vars

\* ------------------------------------------------------------ properties
\* min_edit_dist has returned (to its caller, which may be tok_acc/tok_corr)
HasReturned == ret # <<>>

\* the call has ended, by a return or by an exception
Finished == pc \in {"returned", "raised"}

\* the forward pass has run to its end
ForwardDone ==
    \/ pc \in {"trace", "backward", "tok", "returned"}
    \/ pc = "raised" /\ error = "UnboundLocalError"

Cells == (0..Len(label)) \X (0..Len(pred))

Min2(a, b) == IF a <= b THEN a ELSE b

\* the recurrence of the weighted edit distance
RECURSIVE EditCost(_, _, _, _, _)
EditCost(lab, prd, wts, r, c) ==
    IF r = 0 THEN c * wts[3]
    ELSE IF c = 0 THEN r * wts[1]
    ELSE Min2(EditCost(lab, prd, wts, r - 1, c) + wts[1],
         Min2(EditCost(lab, prd, wts, r - 1, c - 1)
                  + (IF lab[r] = prd[c] THEN 0 ELSE wts[2]),
              EditCost(lab, prd, wts, r, c - 1) + wts[3]))

\* C1: with a tie-break that is a permutation, the cost min_edit_dist
\* returns is the value of the edit-distance recurrence at (N, M) for the
\* weights in force.
C1_ReturnedCostIsMinimal ==
    (HasReturned /\ tie_break \in Perms) =>
        ret.w.dist = EditCost(label, pred, weights, Len(label), Len(pred))

\* C1 witness: a returned alignment of two different sequences of length 2
\* whose minimal cost mixes a hit with an error.
C1_Witness ==
    /\ pc = "returned"
    /\ tie_break \in Perms
    /\ Len(label) = 2
    /\ Len(pred) = 2
    /\ ret.w.H = 1
    /\ ret.w.dist > 0
    /\ ret.w.dist < 2 * substitute_weight

\* C2: after the forward pass every cell (r, c) holds non-negative counts
\* with H + D + S = r and H + I + S = c, and so do the returned counts with
\* r = N and c = M.
C2_CountsAddUp ==
    /\ ForwardDone =>
          \A rc \in Cells :
              /\ w[rc].H + w[rc].D + w[rc].S = rc[1]
              /\ w[rc].H + w[rc].I + w[rc].S = rc[2]
              /\ w[rc].H >= 0 /\ w[rc].D >= 0 /\ w[rc].S >= 0 /\ w[rc].I >= 0
    /\ HasReturned =>
          /\ ret.w.H + ret.w.D + ret.w.S = Len(label)
          /\ ret.w.H + ret.w.I + ret.w.S = Len(pred)
          /\ ret.w.H >= 0 /\ ret.w.D >= 0 /\ ret.w.S >= 0 /\ ret.w.I >= 0

\* C2 witness: returned counts in which hits, deletions and substitutions
\* or insertions all occur.
C2_Witness ==
    /\ pc = "returned"
    /\ ret.w.H > 0
    /\ ret.w.D + ret.w.I > 0
    /\ Len(label) # Len(pred)

RECURSIVE SumOver(_, _)
SumOver(f, S) ==
    IF S = {} THEN 0
    ELSE LET x == CHOOSE y \in S : TRUE
         IN  f[x] + SumOver(f, S \ {x})

\* the parts of a confusion matrix over U tokens
Inner(U) == (0..(U - 1)) \X (0..(U - 1))
Diagonal(U) == {ij \in Inner(U) : ij[1] = ij[2]}
DeletionColumn(U) == {ij \in (0..U) \X (0..U) : ij[2] = U}
InsertionRow(U) == {ij \in (0..U) \X (0..U) : ij[1] = U}

\* C3: for positive weights and a tie-break that is a permutation, the
\* backward pass ends at cell (0,0) and the returned matrix agrees with the
\* returned counts: deletion column = D, insertion row = I, diagonal of the
\* inner block = H, rest of the inner block = S.
C3_MatrixAgreesWithCounts ==
    (/\ HasReturned
     /\ tie_break \in Perms
     /\ delete_weight > 0 /\ substitute_weight > 0 /\ insert_weight > 0) =>
        LET U == Len(ret.unique_tokens)
            cm == ret.confusion_mat
        IN  /\ cur_row = 0
            /\ cur_col = 0
            /\ SumOver(cm, DeletionColumn(U)) = ret.w.D
            /\ SumOver(cm, InsertionRow(U)) = ret.w.I
            /\ SumOver(cm, Diagonal(U)) = ret.w.H
            /\ SumOver(cm, Inner(U) \ Diagonal(U)) = ret.w.S

\* C4: with delete and insert weights that are not zero, a call with an
\* empty reference returns cost = M * insert_weight, I = M, H = D = S = 0,
\* and a call with an empty prediction returns cost = N * delete_weight,
\* D = N, H = S = I = 0; neither ends in an exception.
C4_EmptySequenceReturns ==
    (/\ Finished
     /\ call.fn = "min_edit_dist"
     /\ delete_weight > 0
     /\ insert_weight > 0
     /\ Len(label) = 0 \/ Len(pred) = 0) =>
        /\ pc = "returned"
        /\ Len(label) = 0 =>
              /\ ret.w.dist = Len(pred) * insert_weight
              /\ ret.w.I = Len(pred)
              /\ ret.w.H = 0 /\ ret.w.D = 0 /\ ret.w.S = 0
        /\ Len(pred) = 0 =>
              /\ ret.w.dist = Len(label) * delete_weight
              /\ ret.w.D = Len(label)
              /\ ret.w.H = 0 /\ ret.w.S = 0 /\ ret.w.I = 0

\* C5: with the style disabled, weights that are not zero and a tie-break
\* that is a permutation, min_edit_dist(S, S) returns cost 0, H = len(S),
\* D = S = I = 0 and a matrix that is zero off the inner diagonal.
C5_IdentityAlignment ==
    (/\ Finished
     /\ call.fn = "min_edit_dist"
     /\ ~style.isStr
     /\ tie_break \in Perms
     /\ delete_weight > 0
     /\ insert_weight > 0
     /\ label = pred) =>
        /\ pc = "returned"
        /\ ret.w.dist = 0
        /\ ret.w.H = Len(label)
        /\ ret.w.D = 0 /\ ret.w.S = 0 /\ ret.w.I = 0
        /\ LET U == Len(ret.unique_tokens)
           IN  \A ij \in (0..U) \X (0..U) :
                   ret.confusion_mat[ij] # 0 => ij \in Diagonal(U)

\* C6: a call with the style disabled and a tie_break that is no
\* permutation of (0, 1, 2) never returns an alignment result.
C6_BadTieBreakRejected ==
    (/\ call.fn = "min_edit_dist"
     /\ ~style.isStr
     /\ call.tie_break \notin Perms) => ~HasReturned

IsNamed(st) ==
    st.isStr /\ Lower(st.text) \in {<<"h", "t", "k">>, <<"n", "i", "s", "t">>}

\* C7: a call whose style is a string other than 'htk' and 'nist' (case
\* ignored) never returns an alignment result.
C7_UnknownStyleRejected ==
    (/\ call.fn = "min_edit_dist"
     /\ style.isStr
     /\ ~IsNamed(style)) => ~HasReturned

\* the outcome of the call so far, as MinEditDistBody reports it
Outcome == [error |-> error, ret |-> ret]

\* C8: a finished call with style 'htk' (any case) has the outcome of
\* weights (7, 10, 7) with tie-break (1, 0, 2), one with style 'nist' that
\* of (3, 4, 3) with (0, 1, 2), whatever weights and tie_break were passed;
\* any other call has the outcome of the passed weights and tie_break.
C8_StyleOverrides ==
    (Finished /\ call.fn = "min_edit_dist") =>
        IF style.isStr /\ Lower(style.text) = <<"h", "t", "k">>
        THEN Outcome = MinEditDistBody(label, pred, <<7, 10, 7>>, <<1, 0, 2>>)
        ELSE IF style.isStr /\ Lower(style.text) = <<"n", "i", "s", "t">>
        THEN Outcome = MinEditDistBody(label, pred, <<3, 4, 3>>, <<0, 1, 2>>)
        ELSE Outcome = MinEditDistBody(label, pred, call.weights,
                                       call.tie_break)

\* C8 witness: a call with style 'HTK'/'Htk'/'NIST'/... not in lower case
\* has returned a result that the passed weights and tie_break would not
\* have given.
C8_Witness ==
    /\ pc = "returned"
    /\ call.fn = "min_edit_dist"
    /\ IsNamed(style)
    /\ Lower(style.text) # style.text
    /\ ret # MinEditDistBody(label, pred, call.weights, call.tie_break).ret

\* the forward pass of the call's sequences and weights under tie-break tb
GridUnder(tb) ==
    ForwardFrom(InitialGrid(Len(label), Len(pred), delete_weight,
                            insert_weight),
                label, pred, weights, tb, 0, 0)

\* C9: when the forward pass with a tie-break that is a permutation has
\* ended, every cell holds the cumulative cost that each of the six
\* permutations gives, and the cost returned is the one each of them returns.
C9_TieBreakLeavesCostsAlone ==
    /\ (pc = "trace" /\ tie_break \in Perms) =>
          \A tb \in Perms :
              LET g == GridUnder(tb)
              IN  \A rc \in Cells : g[rc].dist = w[rc].dist
    /\ (pc = "returned" /\ tie_break \in Perms) =>
          \A tb \in Perms :
              MinEditDistBody(label, pred, weights, tb).ret.w.dist
                  = ret.w.dist

\* C9 witness: on ref 'A', pred 'B', weights 1/2/1, where the three costs
\* tie at cell (1,1), another permutation records a different action and
\* different counts but the same cost.
C9_Witness ==
    /\ pc = "returned"
    /\ Len(label) = 1 /\ Len(pred) = 1 /\ label # pred
    /\ weights = <<1, 2, 1>>
    /\ LET c == DSICosts(w, label, pred, weights, 1, 1)
       IN  c[1] = c[2] /\ c[2] = c[3]
    /\ \E tb \in Perms :
          LET other == MinEditDistBody(label, pred, weights, tb).ret.w
          IN  /\ GridUnder(tb)[<<1, 1>>].option # w[<<1, 1>>].option
              /\ <<other.D, other.S, other.I>>
                    # <<ret.w.D, ret.w.S, ret.w.I>>
              /\ other.dist = ret.w.dist

\* C10: tok_acc and tok_corr return exactly when the reference is not
\* empty: with N > 0 the call returns (N - D - S - I) / N resp.
\* (N - D - S) / N, with N = 0 it ends in an exception.
C10_RatesReturnIffNonEmpty ==
    (Finished /\ call.fn \in {"tok_acc", "tok_corr"}) =>
        IF Len(label) > 0
        THEN /\ pc = "returned"
             /\ value.den = Len(label)
             /\ value.num = IF call.fn = "tok_acc"
                            THEN Len(label) - ret.w.D - ret.w.S - ret.w.I
                            ELSE Len(label) - ret.w.D - ret.w.S
        ELSE pc = "raised"

\* what min_edit_dist(label, pred) with the defaults of the signature gives
DefaultAlignment(lab, prd) ==
    LET eff == ResolveStyle(HtkWeights, HtkTieBreak,
                            StrStyle(<<"h", "t", "k">>))
    IN  MinEditDistBody(lab, prd, eff.weights, eff.tie_break)

\* tok_acc(lab, prd) and tok_corr(lab, prd) for a call that returns
TokAccOf(lab, prd) == TokAccValue(Len(lab), DefaultAlignment(lab, prd).ret.w)
TokCorrOf(lab, prd) ==
    TokCorrValue(Len(lab), DefaultAlignment(lab, prd).ret.w)

\* a <= b and a = b for quotients with positive denominators
QuotLeq(a, b) == a.num * b.den <= b.num * a.den
QuotEq(a, b) == a.num * b.den = b.num * a.den

\* C11: whenever tok_acc (tok_corr) returns, its value is at most (at least)
\* what tok_corr (tok_acc) returns on the same sequences, the two are equal
\* exactly when the insert count is 0, and the insert count is not negative.
C11_AccAtMostCorr ==
    /\ (pc = "returned" /\ call.fn = "tok_acc") =>
          /\ value.den > 0
          /\ ret.w.I >= 0
          /\ QuotLeq(value, TokCorrOf(label, pred))
          /\ QuotEq(value, TokCorrOf(label, pred)) <=> ret.w.I = 0
    /\ (pc = "returned" /\ call.fn = "tok_corr") =>
          /\ value.den > 0
          /\ ret.w.I >= 0
          /\ QuotLeq(TokAccOf(label, pred), value)
          /\ QuotEq(TokAccOf(label, pred), value) <=> ret.w.I = 0

\* C11 witness: tok_acc has returned for an alignment with an insertion,
\* with a value strictly below that of tok_corr.
C11_Witness ==
    /\ pc = "returned"
    /\ call.fn = "tok_acc"
    /\ ret.w.I > 0
    /\ ~QuotEq(value, TokCorrOf(label, pred))
    /\ QuotLeq(value, TokCorrOf(label, pred))

\* the inner cells the forward pass has written so far
Written ==
    {rc \in Cells :
        /\ rc[1] >= 1
        /\ rc[2] >= 1
        /\ \/ ForwardDone
           \/ /\ pc = "forward"
              /\ rc[1] < row \/ (rc[1] = row /\ rc[2] <= col)}

Min3(t) == Min2(t[1], Min2(t[2], t[3]))

\* the selection rule: pref[0] if its cost is the minimum, else pref[2] if
\* strictly cheaper than pref[1], else pref[1]
RuleAction(costs, pref) ==
    IF CostOf(costs, pref[1]) = Min3(costs) THEN pref[1]
    ELSE IF CostOf(costs, pref[3]) < CostOf(costs, pref[2]) THEN pref[3]
    ELSE pref[2]

\* C16: with a tie-break that is a permutation, every written cell (r, c),
\* r, c >= 1, records the action the selection rule gives for its three
\* costs; that action attains the minimum m, the recorded cost is m, and a
\* tie between pref[1] and pref[2] with pref[0] not minimal goes to pref[1].
C16_SelectionRule ==
    (call.fn = "min_edit_dist" /\ tie_break \in Perms) =>
        \A rc \in Written :
            LET costs == DSICosts(w, label, pred, weights, rc[1], rc[2])
                m == Min3(costs)
            IN  /\ w[rc].option = RuleAction(costs, tie_break)
                /\ CostOf(costs, w[rc].option) = m
                /\ w[rc].dist = m
                /\ (/\ CostOf(costs, tie_break[1]) > m
                    /\ CostOf(costs, tie_break[2])
                          = CostOf(costs, tie_break[3]))
                      => w[rc].option = tie_break[2]

\* C16 witness: a written cell where pref[0] is not minimal and pref[1] and
\* pref[2] tie, and one where pref[0] ties with another action.
C16_Witness ==
    /\ call.fn = "min_edit_dist"
    /\ tie_break \in Perms
    /\ \E rc \in Written :
          LET costs == DSICosts(w, label, pred, weights, rc[1], rc[2])
          IN  /\ CostOf(costs, tie_break[1]) > Min3(costs)
              /\ CostOf(costs, tie_break[2]) = CostOf(costs, tie_break[3])
    /\ \E rc \in Written :
          LET costs == DSICosts(w, label, pred, weights, rc[1], rc[2])
          IN  /\ CostOf(costs, tie_break[1]) = Min3(costs)
              /\ CostOf(costs, tie_break[2]) = Min3(costs)

\* C17: once lines 103-113 have run, for all lengths and all weights
\* (a weight of 0 included) row 0 holds cost c * insert_weight, action
\* insert and I = c, column 0 holds cost r * delete_weight, action delete
\* and D = r, all other counts 0, and cell (0,0) is the zero sentinel.
C17_BorderInitialised ==
    (call.fn = "min_edit_dist" /\ pc \notin {"entry", "alloc"}) =>
        /\ error # "ZeroDivisionError"
        /\ w[<<0, 0>>] = [option |-> 0 - 1, dist |-> 0,
                          H |-> 0, D |-> 0, S |-> 0, I |-> 0]
        /\ \A c \in 1..Len(pred) :
              w[<<0, c>>] = [option |-> 2, dist |-> c * insert_weight,
                             H |-> 0, D |-> 0, S |-> 0, I |-> c]
        /\ \A r \in 1..Len(label) :
              w[<<r, 0>>] = [option |-> 0, dist |-> r * delete_weight,
                             H |-> 0, D |-> r, S |-> 0, I |-> 0]

\* the grid exists
Allocated == pc \notin {"entry", "alloc"} /\ error # "ZeroDivisionError"

\* every cell's cost is accounted for by its counts
CostMatchesCounts ==
    /\ Allocated =>
          \A rc \in Cells :
              w[rc].dist = delete_weight * w[rc].D
                           + substitute_weight * w[rc].S
                           + insert_weight * w[rc].I
    /\ HasReturned =>
          ret.w.dist = delete_weight * ret.w.D
                       + substitute_weight * ret.w.S
                       + insert_weight * ret.w.I

\* a step of the forward pass writes the cell (row', col') only
OnlyOneCellWritten ==
    ForwardCell => \A rc \in Cells \ {<<row', col'>>} : w'[rc] = w[rc]

\* C18: every cell of the grid, and the returned record, has
\* cost = delete_weight * D + substitute_weight * S + insert_weight * I,
\* and filling cell (r, c) changes no other cell.
C18_CostMatchesCounts == []CostMatchesCounts /\ [][OnlyOneCellWritten]_vars

\* C18 witness: the forward pass has just written a cell that counts a
\* deletion and a substitution, next to cells written before it.
C18_Witness ==
    /\ pc = "forward"
    /\ row >= 2
    /\ w[<<row, col>>].D > 0
    /\ w[<<row, col>>].S > 0
    /\ w[<<row, col>>].dist > 0

\* ------------------------------------------------------------------------
\* The other functions of metrics.py.  Each is a pure function of its
\* arguments: a call is bound in call, one action applies the function and
\* leaves its value in value (or its exception in error); the variables of
\* min_edit_dist keep their initial values.
NoAlignment ==
    /\ delete_weight = 0
    /\ substitute_weight = 0
    /\ insert_weight = 0
    /\ tie_break = <<>>
    /\ w = <<>>
    /\ row = 0
    /\ col = 0
    /\ unique_tokens = <<>>
    /\ confusion_mat = <<>>
    /\ cur_row = 0
    /\ cur_col = 0
    /\ ret = <<>>

alignment_vars ==
    << delete_weight, substitute_weight, insert_weight, tie_break, w, row,
       col, unique_tokens, confusion_mat, cur_row, cur_col, ret >>

\* --------------------------- confusion_matrix_to_y_true_and_y_pred(cm)
\* Largest count in a cell of the matrices that are enumerated.
MaxCount == 2

\* (rows, columns) of the matrices that are enumerated
Shapes == { <<1, 1>>, <<1, 2>>, <<2, 1>>, <<2, 2>>, <<2, 3>>, <<3, 2>> }

\* cm[i][j], rows and columns counted from 1 (category i - 1, j - 1)
Matrices == UNION { [1..sh[1] -> [1..sh[2] -> 0..MaxCount]] : sh \in Shapes }

RECURSIVE SumSeq(_)
SumSeq(q) == IF q = <<>> THEN 0 ELSE Head(q) + SumSeq(Tail(q))

\* [x] * n
Repeat(x, n) == [k \in 1..n |-> x]

\* np.concatenate of a non-empty list of lists
RECURSIVE Concatenate(_)
Concatenate(qs) ==
    IF qs = <<>> THEN <<>> ELSE Head(qs) \o Concatenate(Tail(qs))

\* line 12: np.array(cm).sum(axis=1)
RowSums(cm) == [i \in 1..Len(cm) |-> SumSeq(cm[i])]

\* lines 13-15
YTrue(cm) ==
    Concatenate([i \in 1..Len(cm) |-> Repeat(i - 1, RowSums(cm)[i])])

\* YPred with the two loops of lines 18-19 exchanged
YPredColumnMajor(cm) ==
    LET R == Len(cm)
        C == Len(cm[1])
    IN  Concatenate([k \in 1..(R * C) |->
            LET i == ((k - 1) % R) + 1
                j == ((k - 1) \div R) + 1
            IN  Repeat(j - 1, cm[i][j])])

\* lines 16-21: for i in rows, for j in columns, [j] * cm[i, j]
YPred(cm) ==
    LET R == Len(cm)
        C == Len(cm[1])
    IN  Concatenate([k \in 1..(R * C) |->
            LET i == ((k - 1) \div C) + 1
                j == ((k - 1) % C) + 1
            IN  Repeat(j - 1, cm[i][j])])

\* lines 11-22
ConfusionMatrixToYTrueAndYPred(cm) ==
    [y_true |-> YTrue(cm), y_pred |-> YPred(cm)]

CodecCalls ==
    { [fn |-> "confusion_matrix_to_y_true_and_y_pred", cm |-> m] :
        m \in Matrices }

InitCodec ==
    /\ call \in CodecCalls
    /\ NoAlignment
    /\ pc = "entry"
    /\ value = <<>>
    /\ error = ""

ExpandMatrix ==
    /\ pc = "entry"
    /\ call.fn = "confusion_matrix_to_y_true_and_y_pred"
    /\ value' = ConfusionMatrixToYTrueAndYPred(call.cm)
    /\ pc' = "returned"
    /\ UNCHANGED << call, alignment_vars, error >>

NextCodec == ExpandMatrix

SpecCodec == InitCodec /\ [][NextCodec]_vars

\* the number of positions k with y_true[k] = a and y_pred[k] = b
PairCount(v, a, b) ==
    Cardinality({k \in 1..Len(v.y_true) : v.y_true[k] = a /\ v.y_pred[k] = b})

\* C12: the two returned sequences have the length of the sum of all
\* entries of cm, hold row and column indices of cm only, and for every
\* row i and column j exactly cm[i][j] positions hold the pair (i, j).
C12_ExpansionIsRightInverse ==
    pc = "returned" =>
        LET cm == call.cm
            R == Len(cm)
            C == Len(cm[1])
        IN  /\ Len(value.y_true) = SumSeq(RowSums(cm))
            /\ Len(value.y_pred) = Len(value.y_true)
            /\ \A k \in 1..Len(value.y_true) :
                  /\ value.y_true[k] \in 0..(R - 1)
                  /\ value.y_pred[k] \in 0..(C - 1)
            /\ \A i \in 1..R : \A j \in 1..C :
                  PairCount(value, i - 1, j - 1) = cm[i][j]

\* C12 witness: a matrix with off-diagonal counts, a zero entry and a
\* count above 1 has been expanded.
C12_Witness ==
    /\ pc = "returned"
    /\ Len(call.cm) = 2
    /\ Len(call.cm[1]) = 2
    /\ call.cm[1][2] > 1
    /\ call.cm[2][1] > 0
    /\ call.cm[1][1] = 0
    /\ Len(value.y_true) > 2

\* -------------------------------- letter_label_to_word_label(letters_list)
\* Longest list of letters that is enumerated.
MaxLetters == 3

\* single-character tokens: letters, the space and another whitespace
\* character (a tab)
Letters == {"a", "b", " ", "\t"}

LetterLists == UNION {[1..k -> Letters] : k \in 0..MaxLetters}

\* str.isspace() of a single character
IsWhitespace(ch) == ch \in {" ", "\t"}

\* lines 28-33: one iteration of the loop; a word is the sequence of its
\* characters
WordStep(word_lists, letter) ==
    LET last_word == word_lists[Len(word_lists)]
        last_letter == last_word[Len(last_word)]
    IN  IF \/ (last_letter = " ") /\ (letter = " ")
           \/ (last_letter # " ") /\ (letter # " ")
        THEN [word_lists EXCEPT ![Len(word_lists)] = @ \o <<letter>>]
        ELSE Append(word_lists, <<letter>>)

\* lines 27-33 over the letters from position k on
RECURSIVE WordLoop(_, _, _)
WordLoop(word_lists, letters_list, k) ==
    IF k > Len(letters_list) THEN word_lists
    ELSE WordLoop(WordStep(word_lists, letters_list[k]), letters_list, k + 1)

\* lines 25-34, for a list with a first element
LetterLabelToWordLabel(letters_list) ==
    WordLoop(<< <<letters_list[1]>> >>, letters_list, 2)

\* line 26 reads letters_list[0]
FirstLetterRaises(letters_list) == Len(letters_list) = 0

WordCalls ==
    { [fn |-> "letter_label_to_word_label", letters_list |-> l] :
        l \in LetterLists }

InitWords ==
    /\ call \in WordCalls
    /\ NoAlignment
    /\ pc = "entry"
    /\ value = <<>>
    /\ error = ""

SegmentWords ==
    /\ pc = "entry"
    /\ call.fn = "letter_label_to_word_label"
    /\ ~FirstLetterRaises(call.letters_list)
    /\ value' = LetterLabelToWordLabel(call.letters_list)
    /\ pc' = "returned"
    /\ UNCHANGED << call, alignment_vars, error >>

SegmentWordsRaises ==
    /\ pc = "entry"
    /\ call.fn = "letter_label_to_word_label"
    /\ FirstLetterRaises(call.letters_list)
    /\ Raise("IndexError")
    /\ UNCHANGED << call, alignment_vars, value >>

NextWords == SegmentWords \/ SegmentWordsRaises

SpecWords == InitWords /\ [][NextWords]_vars

\* C13: for every list of single-character tokens the call returns words
\* whose concatenation is the input, each word all whitespace or all
\* non-whitespace, adjacent words of different whitespace-status.
C13_MaximalRuns ==
    Finished =>
        /\ pc = "returned"
        /\ Concatenate(value) = call.letters_list
        /\ \A n \in 1..Len(value) :
              /\ Len(value[n]) > 0
              /\ \A k \in 1..Len(value[n]) :
                    IsWhitespace(value[n][k]) = IsWhitespace(value[n][1])
        /\ \A n \in 1..(Len(value) - 1) :
              IsWhitespace(value[n][1]) # IsWhitespace(value[n + 1][1])

\* ----------------- information_transfer_per_selection(prior, cm, X, Y)
\* A number is a quotient [num, den] with den > 0.  log2 is not evaluated:
\* a term of a sum is [coef, logs], the product of coef and of log2 of each
\* argument in logs, so the arguments log2 is called on are on record.
Q(n, d) == [num |-> n, den |-> d]
QMul(a, b) == Q(a.num * b.num, a.den * b.den)
QAdd(a, b) == Q(a.num * b.den + b.num * a.den, a.den * b.den)

RECURSIVE QSum(_)
QSum(qs) == IF qs = <<>> THEN Q(0, 1) ELSE QAdd(Head(qs), QSum(Tail(qs)))

\* the literal 0 of lines 61 and 64
ZeroTerm == [coef |-> Q(0, 1), logs |-> <<>>]

\* normalize_confusion_matrix (helpers.py): each row divided by its sum, a
\* row that sums to zero stays zero
NormalizeConfusionMatrix(cm) ==
    [i \in 1..Len(cm) |->
        [j \in 1..Len(cm[i]) |->
            IF SumSeq(cm[i]) = 0 THEN Q(0, 1)
            ELSE Q(cm[i][j], SumSeq(cm[i]))]]

\* an optional argument: None or a list of categories
NotGiven == [given |-> FALSE, cats |-> <<>>]
Given(cats) == [given |-> TRUE, cats |-> cats]

\* line 45
SelectOptions(prior) == SortedSeq(DOMAIN prior)

\* lines 46-47
OrDefault(arg, select_options) ==
    IF arg.given THEN arg.cats ELSE select_options

\* normalized_cm[letters_to_ind[x]][letters_to_ind[y]]
EntryOf(ncm, select_options, x, y) ==
    ncm[TokenIndex(select_options, x) + 1][TokenIndex(select_options, y) + 1]

\* the exception that the lookup of the entry for (x, y) raises, "" if none
EntryFault(ncm, prior, x, y) ==
    IF x \notin DOMAIN prior \/ y \notin DOMAIN prior THEN "KeyError"
    ELSE IF TokenIndex(SelectOptions(prior), x) + 1 > Len(ncm)
    THEN "IndexError"
    ELSE IF TokenIndex(SelectOptions(prior), y) + 1
              > Len(ncm[TokenIndex(SelectOptions(prior), x) + 1])
    THEN "IndexError"
    ELSE ""

\* the k-th (i, j) of "for j in range(M) for i in range(N)", from 1
PairAt(N, k) == [i |-> ((k - 1) % N) + 1, j |-> ((k - 1) \div N) + 1]

\* the exception the call raises, "" if none: line 51 looks every X[i] up
\* in prior, lines 52-63 look the entries up pair by pair
TransferFault(prior, ncm, X, Y) ==
    IF \E i \in 1..Len(X) : X[i] \notin DOMAIN prior THEN "KeyError"
    ELSE LET N == Len(X)
             bad == {k \in 1..(N * Len(Y)) :
                        EntryFault(ncm, prior, X[PairAt(N, k).i],
                                   Y[PairAt(N, k).j]) # ""}
         IN  IF bad = {} THEN ""
             ELSE LET k == CHOOSE a \in bad : \A b \in bad : a <= b
                  IN  EntryFault(ncm, prior, X[PairAt(N, k).i],
                                 Y[PairAt(N, k).j])

\* HYTerm without the test of lines 57-60
HYTermUnguarded(p, entry) == [coef |-> QMul(p, entry), logs |-> <<entry>>]

\* lines 54-61: one element of the list summed into HY
HYTerm(p, entry) ==
    IF entry.num # 0
    THEN [coef |-> QMul(p, entry), logs |-> <<entry>>]
    ELSE ZeroTerm

\* lines 52-63
HYTerms(prior, ncm, X, Y) ==
    LET N == Len(X)
        sel == SelectOptions(prior)
    IN  [k \in 1..(N * Len(Y)) |->
            HYTerm(prior[X[PairAt(N, k).i]],
                   EntryOf(ncm, sel, X[PairAt(N, k).i], Y[PairAt(N, k).j]))]

\* lines 66-70: s for column j
ColumnSum(prior, ncm, X, Y, j) ==
    QSum([i \in 1..Len(X) |->
            QMul(prior[X[i]], EntryOf(ncm, SelectOptions(prior), X[i], Y[j]))])

\* lines 71-72: what one iteration adds to HYX
HYXTerm(s) == IF s.num # 0 THEN [coef |-> s, logs |-> <<s>>] ELSE ZeroTerm

\* lines 64-72
HYXTerms(prior, ncm, X, Y) ==
    [j \in 1..Len(Y) |-> HYXTerm(ColumnSum(prior, ncm, X, Y, j))]

\* lines 41-73 for a call that raises nothing: HY - HYX, term by term
InformationTransferPerSelection(prior, cm, Xarg, Yarg) ==
    LET ncm == NormalizeConfusionMatrix(cm)
        X == OrDefault(Xarg, SelectOptions(prior))
        Y == OrDefault(Yarg, SelectOptions(prior))
    IN  [HY |-> HYTerms(prior, ncm, X, Y), HYX |-> HYXTerms(prior, ncm, X, Y)]

\* the inputs
Probabilities == { Q(0, 1), Q(1, 2), Q(1, 1) }
Priors == [{1} -> Probabilities] \cup [{1, 2} -> Probabilities]

SquareMatrices(n) == [1..n -> [1..n -> 0..1]]
InfoMatrices ==
    SquareMatrices(1) \cup SquareMatrices(2)
        \cup { [i \in 1..3 |-> [j \in 1..3 |-> IF i = j THEN 1 ELSE 0]],
               [i \in 1..3 |-> [j \in 1..3 |-> IF j = 3 THEN 1 ELSE 0]] }

CategoryArgs ==
    { NotGiven, Given(<<>>), Given(<<1>>), Given(<<2, 1>>), Given(<<3>>) }

InfoCalls ==
    { [fn |-> "information_transfer_per_selection", prior |-> p, cm |-> m,
       X |-> x, Y |-> y] :
        p \in Priors, m \in InfoMatrices, x \in CategoryArgs,
        y \in CategoryArgs }

InitInfo ==
    /\ call \in InfoCalls
    /\ NoAlignment
    /\ pc = "entry"
    /\ value = <<>>
    /\ error = ""

\* the (X, Y) in force and the fault of the call
InfoFault ==
    TransferFault(call.prior, NormalizeConfusionMatrix(call.cm),
                  OrDefault(call.X, SelectOptions(call.prior)),
                  OrDefault(call.Y, SelectOptions(call.prior)))

InformationTransfer ==
    /\ pc = "entry"
    /\ call.fn = "information_transfer_per_selection"
    /\ InfoFault = ""
    /\ value' = InformationTransferPerSelection(call.prior, call.cm, call.X,
                                                call.Y)
    /\ pc' = "returned"
    /\ UNCHANGED << call, alignment_vars, error >>

InformationTransferRaises ==
    /\ pc = "entry"
    /\ call.fn = "information_transfer_per_selection"
    /\ InfoFault # ""
    /\ Raise(InfoFault)
    /\ UNCHANGED << call, alignment_vars, value >>

NextInfo == InformationTransfer \/ InformationTransferRaises

SpecInfo == InitInfo /\ [][NextInfo]_vars

\* the (X, Y) in force and the normalized matrix of the call
InfoX == OrDefault(call.X, SelectOptions(call.prior))
InfoY == OrDefault(call.Y, SelectOptions(call.prior))
InfoP == NormalizeConfusionMatrix(call.cm)
InfoEntry(k) ==
    EntryOf(InfoP, SelectOptions(call.prior),
            InfoX[PairAt(Len(InfoX), k).i], InfoY[PairAt(Len(InfoX), k).j])
InfoReturned == call.fn = "information_transfer_per_selection" /\ pc = "returned"

\* C14: when information_transfer_per_selection returns, every argument log2
\* was called on is non-zero; log2 was called on an entry P[X_i][Y_j] only
\* if that entry is non-zero and on a column sum s_j only if s_j is non-zero;
\* a zero entry and a zero column sum contribute the literal 0.
C14_LogNeverAtZero ==
    InfoReturned =>
        /\ \A k \in DOMAIN value.HY :
              /\ \A a \in DOMAIN value.HY[k].logs :
                    value.HY[k].logs[a].num # 0
              /\ InfoEntry(k).num = 0 => value.HY[k] = ZeroTerm
              /\ InfoEntry(k).num # 0 => value.HY[k].logs = << InfoEntry(k) >>
        /\ \A j \in DOMAIN value.HYX :
              /\ \A a \in DOMAIN value.HYX[j].logs :
                    value.HYX[j].logs[a].num # 0
              /\ ColumnSum(call.prior, InfoP, InfoX, InfoY, j).num = 0
                    => value.HYX[j] = ZeroTerm
              /\ ColumnSum(call.prior, InfoP, InfoX, InfoY, j).num # 0
                    => value.HYX[j].logs
                         = << ColumnSum(call.prior, InfoP, InfoX, InfoY, j) >>

\* a returned call on a matrix with an all-zero row, where a zero entry and
\* a zero column sum were skipped and log2 was evaluated on a non-zero entry
\* and on a non-zero column sum
C14_Witness ==
    /\ InfoReturned
    /\ \E i \in DOMAIN call.cm : SumSeq(call.cm[i]) = 0
    /\ \E k \in DOMAIN value.HY : value.HY[k] = ZeroTerm
    /\ \E k \in DOMAIN value.HY : value.HY[k].logs # <<>>
    /\ \E j \in DOMAIN value.HYX : value.HYX[j] = ZeroTerm
    /\ \E j \in DOMAIN value.HYX : value.HYX[j].logs # <<>>

\* the categories of the prior are not those of the call: the matrix has
\* another number of rows or of columns than the prior has keys, or X or Y
\* names a category that is not a key of the prior
CategoriesMismatch ==
    \/ Len(call.cm) # Cardinality(DOMAIN call.prior)
    \/ \E i \in DOMAIN call.cm :
          Len(call.cm[i]) # Cardinality(DOMAIN call.prior)
    \/ \E i \in DOMAIN call.X.cats : call.X.cats[i] \notin DOMAIN call.prior
    \/ \E j \in DOMAIN call.Y.cats : call.Y.cats[j] \notin DOMAIN call.prior

\* C15: a call of information_transfer_per_selection whose prior and
\* confusion matrix do not have the same categories returns no value; stated
\* for the calls that leave X and Y to their defaults, where the mismatch is
\* in the size of the matrix.
C15_MismatchRejected ==
    ( /\ call.fn = "information_transfer_per_selection"
      /\ ~ call.X.given
      /\ ~ call.Y.given
      /\ CategoriesMismatch )
        => pc # "returned"

====
